---- MODULE Spec2Model ----
\* Model of the asset-loading hook of the XR scene manager
\* (src/unnamed/part_000): the resource path resolver getFilepathForLoadable,
\* the useAttachmentLoader reducer with its request and load phases, the
\* external glTF loader's callbacks, and the getModelData read.
EXTENDS Integers, Sequences, FiniteSets, TLC

\* ------------------------------------------------------------------ bounds
\* Longest scene-object list fed to the hook.
MaxObjects == 2
\* Number of input changes (scene-object list or world) after the mount
\* with an empty scene.
MaxChanges == 2
\* Progress callbacks the loader delivers in a run.
MaxProgress == 2
\* Largest `loaded` byte count of a progress event, and the `total` byte
\* count the loader reports.
MaxLoaded == 3
TotalBytes == 2
\* Largest distance of a ray hit.
MaxDistance == 2

\* ------------------------------------------------------- JavaScript values
\* null / undefined model reference.  A model reference is the sequence of
\* its '/'-separated segments (what model.split(/\//) returns), so a string
\* always has at least one segment and the empty sequence is free for null.
NullModel == <<>>
\* The resolver's `return null`.
Null == "#null"
\* A TypeError raised by the call.
Thrown == "#TypeError"
\* A property that is absent from an object.
Undefined == "#undefined"
\* progress: undefined
NoProgress == <<>>

\* The decoded asset the loader delivers for a resource, and its error info.
ValueOf(key) == "gltf:" \o key
ErrorInfo == "loadError"

\* ------------------------------------------------------------------ inputs
Obj(type, model, loaded) == [type |-> type, model |-> model, loaded |-> loaded]

\* The scene objects the store can hold.
Descriptors ==
  { Obj("character", <<"ORC">>, FALSE),
    Obj("character", <<"ORC">>, TRUE),
    Obj("character", NullModel, FALSE),
    Obj("object", <<"box">>, FALSE),
    Obj("object", <<"assets", "oak.glb">>, FALSE),
    Obj("object", <<"props", "oak.glb">>, FALSE),
    Obj("light", <<"lamps", "spot.glb">>, FALSE) }

\* world.environment.file: none, a bare name, a user path.
EnvFiles == { NullModel, <<"forest">>, <<"envs", "cave.glb">> }

SceneLists == UNION { [1..n -> Descriptors] : n \in 0..MaxObjects }

ProgressEvents == (0..MaxLoaded) \X {TotalBytes}

VARIABLES
  sceneObjects,     \* Object.values(sceneObjects) of the current props
  envFile,          \* world.environment.file of the current props
  attachments,      \* the reducer state: resource key -> entry
  keyOrder,         \* insertion order of the keys of attachments
  queue,            \* dispatched actions the reducer has not yet processed
  loader,           \* the external loader: per key, its calls and callbacks
  sceneDirty,       \* useMemo(..., [sceneObjects]) has to run
  attachmentsDirty, \* useMemo(..., [attachments]) has to run
  phase,            \* position within a render pass
  changes,          \* input changes so far
  progressCount,    \* progress callbacks so far
  seenLoadables,    \* history: the loadables the request phase has dispatched for
  isXR,             \* useState(false): a VR display was found
  controller1,      \* whether this render's controller1 binding is assigned
  controller2,      \* whether this render's controller2 binding is assigned
  selection,        \* the intersection engine's state after its last call
  rays,             \* the hits of the two controllers' rays in the last tick
  nearest,          \* the nearest hit each ray picked in the last tick
  lastUnion         \* history: the objects that were nearest hits one tick earlier

\* The asset loading hook's variables.
loaderVars == << sceneObjects, envFile, attachments, keyOrder, queue, loader,
                 sceneDirty, attachmentsDirty, phase, changes, progressCount,
                 seenLoadables >>

\* The controller selection's variables.
selectVars == << isXR, controller1, controller2, selection, rays, nearest, lastUnion >>

vars == << loaderVars, selectVars >>

\* ---------------------------------------------------------------- resolver
HasSlash(model) == Len(model) > 1

\* Variant of getFilepathForLoadable: parts[0] instead of parts[parts.length - 1].
getFilepathFirstSegment(type, model) ==
  IF model = NullModel THEN Thrown
  ELSE IF HasSlash(model)
  THEN LET filename == model[1] IN
       CASE type = "character" -> "/data/user/characters/" \o filename
         [] type = "object" -> "/data/user/objects/" \o filename
         [] type = "environment" -> "/data/user/environments/" \o filename
         [] OTHER -> Null
  ELSE CASE type = "character" -> "/data/system/dummies/gltf/" \o model[1] \o ".glb"
         [] type = "object" -> "/data/system/objects/" \o model[1] \o ".glb"
         [] OTHER -> Null

getFilepathForLoadable(type, model) ==
  IF model = NullModel THEN Thrown
  ELSE IF HasSlash(model)
  THEN LET filename == model[Len(model)] IN
       CASE type = "character" -> "/data/user/characters/" \o filename
         [] type = "object" -> "/data/user/objects/" \o filename
         [] type = "environment" -> "/data/user/environments/" \o filename
         [] OTHER -> Null
  ELSE CASE type = "character" -> "/data/system/dummies/gltf/" \o model[1] \o ".glb"
         [] type = "object" -> "/data/system/objects/" \o model[1] \o ".glb"
         [] OTHER -> Null

\* A value used as a computed property name: null names the property "null".
PropertyKey(id) == IF id = Null THEN "null" ELSE id

\* ----------------------------------------------------------------- reducer
Entry(status, p0, progress, value, error) ==
  [status |-> status, p0 |-> p0, progress |-> progress, value |-> value, error |-> error]

Action(type, id, progress, value, error) ==
  [type |-> type, id |-> id, progress |-> progress, value |-> value, error |-> error]

Pending(id) == Action("PENDING", id, NoProgress, Undefined, Undefined)
Load(id) == Action("LOAD", id, NoProgress, Undefined, Undefined)
Progress(id, p) == Action("PROGRESS", id, p, Undefined, Undefined)
Success(id, v) == Action("SUCCESS", id, NoProgress, v, Undefined)
Failure(id, e) == Action("ERROR", id, NoProgress, Undefined, e)

\* Variant of Has: only an entry that is still NotAsked counts as present.
HasNotAsked(state, key) == key \in DOMAIN state /\ state[key].status = "NotAsked"

Has(state, key) == key \in DOMAIN state

\* Variant of Put: the new mapping holds the one entry only.
PutAlone(state, key, entry) == [k \in {key} |-> entry]

Put(state, key, entry) ==
  [k \in DOMAIN state \cup {key} |-> IF k = key THEN entry ELSE state[k]]

percent(loaded, total) == (loaded \div total) * 100

\* state[action.payload.id].loading: no entry ever carries a `loading` field.
IsLoadingFlag(entry) == FALSE

NotAskedEntry == Entry("NotAsked", Undefined, NoProgress, Undefined, Undefined)

\* Variant of LoadingEntry: { ...state[id], status: 'Loading', progress: undefined }
LoadingEntrySpread(old) == [old EXCEPT !.status = "Loading", !.progress = NoProgress]

\* { status: 'Loading', progress: undefined }
LoadingEntry(old) == Entry("Loading", Undefined, NoProgress, Undefined, Undefined)

\* { ...[id], progress: {...} }: the spread is of the one-element array [id],
\* whose only own property is "0"; nothing of the old entry is copied.
ProgressEntry(old, id, loaded, total) ==
  Entry(Undefined, id, << loaded, total, percent(loaded, total) >>, Undefined, Undefined)

SuccessEntry(old, value) == Entry("Success", Undefined, NoProgress, value, Undefined)

ErrorEntry(old, error) == Entry("Error", Undefined, NoProgress, Undefined, error)

reducer(state, action) ==
  LET id == PropertyKey(action.id) IN
  CASE action.type = "PENDING" ->
         IF Has(state, id) THEN state
         ELSE Put(state, id, NotAskedEntry)
    [] action.type = "LOAD" ->
         IF IsLoadingFlag(state[id]) THEN state
         ELSE Put(state, id, LoadingEntry(state[id]))
    [] action.type = "PROGRESS" ->
         Put(state, id,
             ProgressEntry(IF Has(state, id) THEN state[id] ELSE NotAskedEntry,
                           action.id, action.progress[1], action.progress[2]))
    [] action.type = "SUCCESS" ->
         Put(state, id,
             SuccessEntry(IF Has(state, id) THEN state[id] ELSE NotAskedEntry, action.value))
    [] action.type = "ERROR" ->
         Put(state, id,
             ErrorEntry(IF Has(state, id) THEN state[id] ELSE NotAskedEntry, action.error))
    [] OTHER -> state

\* Whether the reducer hands back the very object it was given.
ReturnsSameObject(state, action) ==
  \/ action.type = "PENDING" /\ Has(state, PropertyKey(action.id))
  \/ action.type = "LOAD" /\ IsLoadingFlag(state[PropertyKey(action.id)])

\* -------------------------------------------------------- external loader
\* gltfLoader is an external collaborator.  Per key it records the number of
\* load calls, the calls that still owe their terminal callback and the value
\* of the last success callback.
NoLoad == [calls |-> 0, open |-> 0, delivered |-> Undefined]

LoaderOf(ld, key) == IF key \in DOMAIN ld THEN ld[key] ELSE NoLoad

\* The callbacks a load call may run before it returns: none, or the terminal
\* one when the loader can settle the request at once.  The source fixes no
\* order between the loader's callbacks and the statement that follows the
\* call.
SyncCallbacks(key) ==
  { <<>>, <<Success(key, ValueOf(key))>>, <<Failure(key, ErrorInfo)>> }

IsTerminal(cbs) == cbs # <<>> /\ cbs[1].type \in {"SUCCESS", "ERROR"}

AfterLoadCall(l, cbs) ==
  [ calls |-> l.calls + 1,
    open |-> IF IsTerminal(cbs) THEN l.open ELSE l.open + 1,
    delivered |-> IF cbs # <<>> /\ cbs[1].type = "SUCCESS" THEN cbs[1].value
                  ELSE l.delivered ]

Range(s) == { s[i] : i \in DOMAIN s }

\* ------------------------------------------------------------ request phase
Truthy(file) == file # NullModel /\ file # <<"">>

IsLoadable(o) ==
  /\ o.model # NullModel
  /\ o.loaded # TRUE
  /\ ~(o.type = "object" /\ o.model = <<"box">>)

loadables(objs, file) ==
  SelectSeq(objs, IsLoadable)
    \o (IF Truthy(file) THEN << Obj("environment", file, FALSE) >> ELSE <<>>)

\* Variant of RequestActions: only the first loadable is requested.
RequestActionsFirstOnly(objs, file) ==
  LET ls == loadables(objs, file) IN
  [i \in 1..(IF ls = <<>> THEN 0 ELSE 1) |->
     Pending(getFilepathForLoadable(ls[i].type, ls[i].model))]

RequestActions(objs, file) ==
  LET ls == loadables(objs, file) IN
  [i \in 1..Len(ls) |-> Pending(getFilepathForLoadable(ls[i].type, ls[i].model))]

\* --------------------------------------------------------------- load phase
\* Variant of IsNotAsked: every entry that has not finished is selected.
IsNotFinished(entry) == entry.status \notin {"Success", "Error"}

IsNotAsked(entry) == entry.status = "NotAsked"

NotAskedKeys(state, order) == SelectSeq(order, LAMBDA k : IsNotAsked(state[k]))

RECURSIVE LoadActions(_, _)
LoadActions(keys, sync) ==
  IF keys = <<>> THEN <<>>
  ELSE sync[Head(keys)] \o << Load(Head(keys)) >> \o LoadActions(Tail(keys), sync)

\* ------------------------------------------------------------------- read
getModelData(state, sceneObject) ==
  LET key == getFilepathForLoadable(sceneObject.type, sceneObject.model) IN
  IF key = Thrown THEN Thrown
  ELSE IF Has(state, PropertyKey(key)) THEN state[PropertyKey(key)].value
  ELSE Undefined

\* The getModelData calls of one render: every character and object of the
\* scene, and the environment when the world names a file.
RenderedReads(objs, file) ==
  { o \in Range(objs) : o.type \in {"character", "object"} }
    \cup (IF Truthy(file) THEN { Obj("environment", file, FALSE) } ELSE {})

\* A render whose scene content raises never commits: the component tree is
\* torn down and nothing of it runs again.
SceneContentThrows ==
  \E o \in RenderedReads(sceneObjects, envFile) : getModelData(attachments, o) = Thrown

\* --------------------------------------------------------------- selection
\* The meshes scene.traverse collects into intersectArray.
Meshes == {"X", "Y"}

\* A ray that hits nothing.
None == "#none"

\* The hits of one ray: the meshes it intersects, each with its distance.
HitMaps == UNION { [hit -> 1..MaxDistance] : hit \in SUBSET Meshes }
NoHits == [m \in {} |-> 1]

\* The candidates a ray may report as its first intersection: those at the
\* minimum distance.
NearestOf(hits) ==
  IF DOMAIN hits = {} THEN {None}
  ELSE { m \in DOMAIN hits : \A n \in DOMAIN hits : hits[m] <= hits[n] }

NoCount == [m \in Meshes |-> 0]

\* intersected: the objects that are a nearest hit in this tick; previous: the
\* same set of the tick before; entered / exited: how often the enter and
\* the exit event of each object fired in this tick.
NoSelection ==
  [intersected |-> {}, previous |-> {}, entered |-> NoCount, exited |-> NoCount]

ExitedCount(previous, intersected) ==
  [m \in Meshes |-> IF m \in previous \ intersected THEN 1 ELSE 0]

\* Start of a tick: the set is rebuilt, the last tick's set is kept for the
\* enter / exit deltas.
cleanIntersected(sel) ==
  [intersected |-> {}, previous |-> sel.intersected, entered |-> NoCount,
   exited |-> ExitedCount(sel.intersected, {})]

\* One ray: its nearest hit joins the set; it is entered if it was in
\* neither the last tick's set nor already in this tick's.
intersectObjects(sel, hit) ==
  IF hit = None THEN sel
  ELSE LET joined == sel.intersected \cup {hit} IN
       [intersected |-> joined,
        previous |-> sel.previous,
        entered |-> IF hit \in sel.previous \/ hit \in sel.intersected
                    THEN sel.entered
                    ELSE [sel.entered EXCEPT ![hit] = @ + 1],
        exited |-> ExitedCount(sel.previous, joined)]

\* ------------------------------------------------------------------ actions
\* The component mounts on an empty scene without an environment file; the
\* cache starts as {} and both memos run on the first render.
Init ==
  /\ sceneObjects = <<>>
  /\ envFile = NullModel
  /\ attachments = [k \in {} |-> NoLoad]
  /\ keyOrder = <<>>
  /\ queue = <<>>
  /\ loader = [k \in {} |-> NoLoad]
  /\ sceneDirty = TRUE
  /\ attachmentsDirty = TRUE
  /\ phase = "reduce"
  /\ changes = 0
  /\ progressCount = 0
  /\ seenLoadables = {}
  /\ isXR = FALSE
  /\ controller1 = FALSE
  /\ controller2 = FALSE
  /\ selection = NoSelection
  /\ rays = << NoHits, NoHits >>
  /\ nearest = << None, None >>
  /\ lastUnion = {}

\* Callbacks and store updates run to completion on one thread: the next one
\* starts when the render that the previous one scheduled has finished.
Idle ==
  /\ phase = "reduce"
  /\ queue = <<>>
  /\ ~sceneDirty
  /\ ~attachmentsDirty
  /\ ~SceneContentThrows

\* The store hands the component a new scene-object list.
ChangeSceneObjects ==
  /\ Idle
  /\ changes < MaxChanges
  /\ \E objs \in SceneLists : sceneObjects' = objs
  /\ sceneDirty' = TRUE
  /\ changes' = changes + 1
  /\ UNCHANGED << envFile, attachments, keyOrder, queue, loader, attachmentsDirty,
                  phase, progressCount, seenLoadables >>
  /\ UNCHANGED selectVars

\* The store hands the component a new world with the same scene objects.
ChangeWorld ==
  /\ Idle
  /\ changes < MaxChanges
  /\ \E file \in EnvFiles \ {envFile} : envFile' = file
  /\ changes' = changes + 1
  /\ UNCHANGED << sceneObjects, attachments, keyOrder, queue, loader,
                  sceneDirty, attachmentsDirty, phase, progressCount, seenLoadables >>
  /\ UNCHANGED selectVars

\* useReducer applies the next dispatched action.
Reduce ==
  /\ phase = "reduce"
  /\ queue # <<>>
  /\ LET action == Head(queue)
         id == PropertyKey(action.id) IN
     /\ attachments' = reducer(attachments, action)
     /\ keyOrder' = IF Has(attachments, id) \/ ~Has(attachments', id)
                    THEN keyOrder ELSE Append(keyOrder, id)
     /\ attachmentsDirty' = (attachmentsDirty \/ ~ReturnsSameObject(attachments, action))
  /\ queue' = Tail(queue)
  /\ UNCHANGED << sceneObjects, envFile, loader, sceneDirty, phase, changes,
                  progressCount, seenLoadables >>
  /\ UNCHANGED selectVars

\* useMemo(..., [sceneObjects]): one PENDING per loadable.
RequestPhase ==
  /\ phase = "reduce"
  /\ queue = <<>>
  /\ sceneDirty
  /\ queue' = queue \o RequestActions(sceneObjects, envFile)
  /\ sceneDirty' = FALSE
  /\ phase' = IF attachmentsDirty THEN "load" ELSE "reduce"
  /\ seenLoadables' = seenLoadables \cup Range(loadables(sceneObjects, envFile))
  /\ UNCHANGED << sceneObjects, envFile, attachments, keyOrder, loader,
                  attachmentsDirty, changes, progressCount >>
  /\ UNCHANGED selectVars

\* useMemo(..., [attachments]): a load call and a LOAD per NotAsked entry.
LoadPhase ==
  /\ attachmentsDirty
  /\ \/ phase = "load"
     \/ phase = "reduce" /\ queue = <<>> /\ ~sceneDirty
  /\ LET keys == NotAskedKeys(attachments, keyOrder) IN
     \E sync \in [Range(keys) -> UNION { SyncCallbacks(k) : k \in Range(keys) }] :
       /\ \A k \in Range(keys) : sync[k] \in SyncCallbacks(k)
       /\ queue' = queue \o LoadActions(keys, sync)
       /\ loader' = [k \in DOMAIN loader \cup Range(keys) |->
                       IF k \in Range(keys)
                       THEN AfterLoadCall(LoaderOf(loader, k), sync[k])
                       ELSE loader[k]]
  /\ attachmentsDirty' = FALSE
  /\ phase' = "reduce"
  /\ UNCHANGED << sceneObjects, envFile, attachments, keyOrder, sceneDirty, changes,
                  progressCount, seenLoadables >>
  /\ UNCHANGED selectVars

\* The loader reports progress of a load that has not finished.
OnProgress ==
  /\ Idle
  /\ \E k \in DOMAIN loader, p \in ProgressEvents :
       /\ loader[k].open > 0
       /\ queue' = Append(queue, Progress(k, p))
  /\ progressCount < MaxProgress
  /\ progressCount' = progressCount + 1
  /\ UNCHANGED << sceneObjects, envFile, attachments, keyOrder, loader,
                  sceneDirty, attachmentsDirty, phase, changes, seenLoadables >>
  /\ UNCHANGED selectVars

\* The loader delivers the decoded asset.
OnSuccess ==
  /\ Idle
  /\ \E k \in DOMAIN loader :
       /\ loader[k].open > 0
       /\ queue' = Append(queue, Success(k, ValueOf(k)))
       /\ loader' = [loader EXCEPT ![k].open = @ - 1, ![k].delivered = ValueOf(k)]
  /\ UNCHANGED << sceneObjects, envFile, attachments, keyOrder,
                  sceneDirty, attachmentsDirty, phase, changes, progressCount, seenLoadables >>
  /\ UNCHANGED selectVars

\* The loader reports a failure.
OnError ==
  /\ Idle
  /\ \E k \in DOMAIN loader :
       /\ loader[k].open > 0
       /\ queue' = Append(queue, Failure(k, ErrorInfo))
       /\ loader' = [loader EXCEPT ![k].open = @ - 1]
  /\ UNCHANGED << sceneObjects, envFile, attachments, keyOrder,
                  sceneDirty, attachmentsDirty, phase, changes, progressCount, seenLoadables >>
  /\ UNCHANGED selectVars

Next ==
  \/ ChangeSceneObjects
  \/ ChangeWorld
  \/ Reduce
  \/ RequestPhase
  \/ LoadPhase
  \/ OnProgress
  \/ OnSuccess
  \/ OnError

Spec == Init /\ [][Next]_vars

\* ------------------------------------------------- controller selection
\* navigator.getVRDisplays() found a display: setIsXR(true).  The state change
\* renders the component again, and `let controller1, controller2` of the new
\* render start unassigned.
SetIsXR ==
  /\ ~isXR
  /\ isXR' = TRUE
  /\ controller1' = FALSE
  /\ controller2' = FALSE
  /\ UNCHANGED << selection, rays, nearest, lastUnion >>
  /\ UNCHANGED loaderVars

\* Any later render of the component: its controller bindings are fresh.
Rerender ==
  /\ isXR
  /\ controller1 \/ controller2
  /\ controller1' = FALSE
  /\ controller2' = FALSE
  /\ UNCHANGED << isXR, selection, rays, nearest, lastUnion >>
  /\ UNCHANGED loaderVars

\* The effect of the mounted scene content assigns both controllers.
GetControllers ==
  /\ ~controller1
  /\ controller1' = TRUE
  /\ controller2' = TRUE
  /\ UNCHANGED << isXR, selection, rays, nearest, lastUnion >>
  /\ UNCHANGED loaderVars

\* Variant of Tick: intersectObjects(controller1, ...) is called for both rays.
TickFirstControllerTwice ==
  /\ isXR /\ controller1 /\ controller2
  /\ \E hits1, hits2 \in HitMaps :
       \E n1 \in NearestOf(hits1), n2 \in NearestOf(hits2) :
         /\ rays' = << hits1, hits2 >>
         /\ nearest' = << n1, n2 >>
         /\ selection' =
              intersectObjects(intersectObjects(cleanIntersected(selection), n1), n1)
  /\ lastUnion' = Range(nearest) \ {None}
  /\ UNCHANGED << isXR, controller1, controller2 >>
  /\ UNCHANGED loaderVars

\* Variant of Tick: cleanIntersected() is not called.
TickWithoutClean ==
  /\ isXR /\ controller1 /\ controller2
  /\ \E hits1, hits2 \in HitMaps :
       \E n1 \in NearestOf(hits1), n2 \in NearestOf(hits2) :
         /\ rays' = << hits1, hits2 >>
         /\ nearest' = << n1, n2 >>
         /\ selection' = intersectObjects(intersectObjects(selection, n1), n2)
  /\ lastUnion' = Range(nearest) \ {None}
  /\ UNCHANGED << isXR, controller1, controller2 >>
  /\ UNCHANGED loaderVars

\* useRender: one tick of the selection, for the two controllers' rays.
Tick ==
  /\ isXR /\ controller1 /\ controller2
  /\ \E hits1, hits2 \in HitMaps :
       \E n1 \in NearestOf(hits1), n2 \in NearestOf(hits2) :
         /\ rays' = << hits1, hits2 >>
         /\ nearest' = << n1, n2 >>
         /\ selection' =
              intersectObjects(intersectObjects(cleanIntersected(selection), n1), n2)
  /\ lastUnion' = Range(nearest) \ {None}
  /\ UNCHANGED << isXR, controller1, controller2 >>
  /\ UNCHANGED loaderVars

NextSelect ==
  \/ SetIsXR
  \/ Rerender
  \/ GetControllers
  \/ Tick

SpecSelect == Init /\ [][NextSelect]_vars

\* ================================================================== claims
StatusOf(k) == attachments[k].status

\* Every descriptor the resolver is called with: by the request phase
\* (line 122) and by getModelData in the current render (line 174).
ResolverInputs == seenLoadables \cup RenderedReads(sceneObjects, envFile)

\* The reducer is applying the action at the head of the queue.
Applying(type, k) ==
  /\ queue # <<>>
  /\ Head(queue).type = type
  /\ PropertyKey(Head(queue).id) = k
  /\ queue' = Tail(queue)

\* C1: over every sequence of input changes and every interleaving of loader
\* callbacks, the external loader's load is invoked at most once per key.
C1_LoadAtMostOnce == \A k \in DOMAIN loader : loader[k].calls <= 1

\* C1 witness: a key whose load was called once and whose entry is Success is
\* requested again (its PENDING is about to be reduced).
C1_RequestedAgainAfterSuccess ==
  /\ queue # <<>>
  /\ Head(queue).type = "PENDING"
  /\ LET id == PropertyKey(Head(queue).id) IN
       /\ Has(attachments, id)
       /\ StatusOf(id) = "Success"
       /\ LoaderOf(loader, id).calls = 1

\* C2: once an entry has status Success or Error, no later reducer action
\* changes that entry's status.
C2_TerminalStatusKept ==
  [][\A k \in DOMAIN attachments :
       StatusOf(k) \in {"Success", "Error"} => attachments'[k].status = StatusOf(k)]_vars

\* C3: a PROGRESS action applied to a Loading entry leaves its status Loading.
C3_ProgressKeepsLoading ==
  [][\A k \in DOMAIN attachments :
       Applying("PROGRESS", k) /\ StatusOf(k) = "Loading"
         => attachments'[k].status = "Loading"]_vars

\* C4: the percent stored by a PROGRESS action with loaded >= 0 and total > 0
\* is 100 only when loaded = total.
C4_HundredOnlyWhenComplete ==
  \A k \in DOMAIN attachments :
    LET p == attachments[k].progress IN
    (p # NoProgress /\ p[3] = 100) => p[1] = p[2]

\* C5: the status of an entry starts as NotAsked and changes only along
\* NotAsked -> Loading -> Success or NotAsked -> Loading -> Error.
C5_TransitionOrder ==
  [][\A k \in DOMAIN attachments' :
       IF Has(attachments, k)
       THEN \/ attachments'[k].status = StatusOf(k)
            \/ << StatusOf(k), attachments'[k].status >> \in
                 { <<"NotAsked", "Loading">>, <<"Loading", "Success">>,
                   <<"Loading", "Error">> }
       ELSE attachments'[k].status = "NotAsked"]_vars

\* C6: every key of the cache, and every key the loader was called with, is
\* the non-null resolved path of a descriptor that passed the loadable filter
\* in some input seen so far.
C6_KeysComeFromLoadables ==
  \A k \in DOMAIN attachments \cup DOMAIN loader :
    \E d \in seenLoadables :
      /\ getFilepathForLoadable(d.type, d.model) # Null
      /\ k = getFilepathForLoadable(d.type, d.model)

TablePath(type, model) ==
  IF Len(model) > 1
  THEN IF type = "character" THEN "/data/user/characters/" \o model[Len(model)]
       ELSE IF type = "object" THEN "/data/user/objects/" \o model[Len(model)]
       ELSE IF type = "environment" THEN "/data/user/environments/" \o model[Len(model)]
       ELSE Null
  ELSE IF type = "character" THEN "/data/system/dummies/gltf/" \o model[1] \o ".glb"
       ELSE IF type = "object" THEN "/data/system/objects/" \o model[1] \o ".glb"
       ELSE Null

\* C8: for every descriptor with a non-null model the resolver is called
\* with, its result is the entry of the resource-directory table.
C8_ResolverTable ==
  \A o \in ResolverInputs :
    o.model # NullModel => getFilepathForLoadable(o.type, o.model) = TablePath(o.type, o.model)

\* C8 witness: the cache holds the system path of a bare character name and
\* the user path of an object reference, and a bare environment name was
\* resolved.
C8_ResolvedBothNamespaces ==
  /\ Has(attachments, "/data/system/dummies/gltf/ORC.glb")
  /\ Has(attachments, "/data/user/objects/oak.glb")
  /\ \E o \in ResolverInputs : o.type = "environment" /\ ~HasSlash(o.model)

\* C9: the resolver returns null for the box sentinel and for every light.
C9_BoxAndLightResolveNull ==
  \A o \in ResolverInputs :
    ((o.type = "object" /\ o.model = <<"box">>) \/ o.type = "light")
      => getFilepathForLoadable(o.type, o.model) = Null

\* C10: with a null model reference the resolver returns null and raises
\* nothing, also when getModelData calls it.
C10_NullModelResolvesNull ==
  \A o \in RenderedReads(sceneObjects, envFile) :
    o.model = NullModel =>
      /\ getFilepathForLoadable(o.type, o.model) = Null
      /\ getModelData(attachments, o) # Thrown

\* The descriptors the resolver maps to a key.
Keyed ==
  { o \in ResolverInputs :
      o.model # NullModel /\ getFilepathForLoadable(o.type, o.model) # Null }

KeyOf(o) == getFilepathForLoadable(o.type, o.model)

LastSegment(model) == model[Len(model)]

\* C11: two descriptors that resolve to the same non-null key have the same
\* kind and the same model reference.
C11_KeysDoNotCollide ==
  \A d1, d2 \in Keyed :
    KeyOf(d1) = KeyOf(d2) => d1.type = d2.type /\ d1.model = d2.model

\* C11 as amended: equal keys imply the same kind, the same namespace (both
\* references bare or both paths) and the same last path segment; two path
\* references of one kind with the same last segment get the same key.
C11_KeysCollideOnLastSegmentOnly ==
  \A d1, d2 \in Keyed :
    /\ KeyOf(d1) = KeyOf(d2) =>
         /\ d1.type = d2.type
         /\ HasSlash(d1.model) = HasSlash(d2.model)
         /\ LastSegment(d1.model) = LastSegment(d2.model)
    /\ ( /\ d1.type = d2.type
         /\ HasSlash(d1.model) /\ HasSlash(d2.model)
         /\ LastSegment(d1.model) = LastSegment(d2.model) ) => KeyOf(d1) = KeyOf(d2)

\* C11 witness: two object references in different directories were both
\* requested and share the one cache entry of their common file name, next to
\* the entry of a character.
C11_TwoDirectoriesOneEntry ==
  /\ \E d1, d2 \in seenLoadables :
       /\ d1.model # d2.model
       /\ KeyOf(d1) = KeyOf(d2)
       /\ Has(attachments, KeyOf(d1))
  /\ Has(attachments, "/data/system/dummies/gltf/ORC.glb")


\* The objects that are some ray's nearest hit in the last tick.
Union == Range(nearest) \ {None}

\* The objects whose enter, or exit, event fired in the last tick.
EnteredSet == { m \in Meshes : selection.entered[m] > 0 }
ExitedSet == { m \in Meshes : selection.exited[m] > 0 }

\* C12: an object that is the nearest hit of both controllers' rays in a tick,
\* and was no nearest hit the tick before, has its enter event fired exactly
\* once in that tick; an object that was a nearest hit the tick before and is
\* none now has its exit event fired exactly once; no event fires twice.
C12_EnterAndExitFireOnce ==
  \A m \in Meshes :
    /\ selection.entered[m] <= 1
    /\ selection.exited[m] <= 1
    /\ (nearest = << m, m >> /\ m \notin lastUnion) => selection.entered[m] = 1
    /\ (m \in lastUnion /\ m \notin Union) => selection.exited[m] = 1

\* C12 witness: both rays have X as their nearest hit, X is new in this tick,
\* and its enter event fired once.
C12_BothRaysEnterOnce ==
  /\ nearest = << "X", "X" >>
  /\ "X" \notin lastUnion
  /\ selection.entered["X"] = 1

\* C13: after a tick the intersected set holds, for each ray with a hit, one
\* minimum-distance hit of that ray and nothing else; the entered objects are
\* this set minus the previous tick's, the exited objects the previous tick's
\* minus this set; a ray without a hit adds nothing.
C13_TickDeltas ==
  /\ \A m \in selection.intersected :
       \E i \in 1..2 : /\ nearest[i] = m
                       /\ m \in DOMAIN rays[i]
                       /\ \A n \in DOMAIN rays[i] : rays[i][m] <= rays[i][n]
  /\ \A i \in 1..2 :
       IF DOMAIN rays[i] = {} THEN nearest[i] = None
       ELSE nearest[i] \in selection.intersected
  /\ selection.intersected = Union
  /\ EnteredSet = Union \ lastUnion
  /\ ExitedSet = lastUnion \ Union

\* C13 witness: one ray hits Y nearer than X and the other ray hits nothing;
\* X was the nearest hit a tick earlier, so Y is entered and X is exited.
C13_NearestOfTwoAndAMiss ==
  /\ rays[1] = [m \in Meshes |-> IF m = "Y" THEN 1 ELSE 2]
  /\ rays[2] = NoHits
  /\ lastUnion = {"X"}
  /\ selection.intersected = {"Y"}
  /\ EnteredSet = {"Y"}
  /\ ExitedSet = {"X"}

\* C14: a LOAD action applied to an entry whose status is Loading, Success or
\* Error returns the state unchanged; LOAD takes effect only on NotAsked.
C14_LoadOnlyFromNotAsked ==
  [][\A k \in DOMAIN attachments :
       Applying("LOAD", k) /\ StatusOf(k) \in {"Loading", "Success", "Error"}
         => attachments' = attachments]_vars

\* C15: when the hook has processed a change of its inputs (the scene-object
\* list, or the environment file alone) and nothing is pending, every
\* loadable of the current input whose path is not null has a cache entry.
C15_LoadablesHaveEntries ==
  Idle =>
    \A d \in Range(loadables(sceneObjects, envFile)) :
      LET key == getFilepathForLoadable(d.type, d.model) IN
      key \notin {Null, Thrown} => Has(attachments, key)

\* C16: no entry stays NotAsked or Loading for ever: when nothing is pending
\* (no queued action, no phase to run) every entry has been handed to the
\* loader, and an entry whose load has delivered its one terminal callback
\* has status Success or Error.
C16_SettledLoadIsTerminal ==
  Idle =>
    \A k \in DOMAIN attachments :
      /\ StatusOf(k) # "NotAsked"
      /\ LoaderOf(loader, k).calls > 0
      /\ LoaderOf(loader, k).open = 0 => StatusOf(k) \in {"Success", "Error"}

\* C17: PENDING for a key without entry adds an entry with status NotAsked
\* and changes nothing else; PENDING for a key that has an entry, in whatever
\* status, leaves the whole mapping as it is; applying the same PENDING once
\* more changes nothing.
C17_PendingIdempotent ==
  [][\A k \in DOMAIN attachments' :
       Applying("PENDING", k) =>
         /\ IF k \in DOMAIN attachments
            THEN attachments' = attachments
            ELSE /\ attachments'[k].status = "NotAsked"
                 /\ DOMAIN attachments' = DOMAIN attachments \cup {k}
                 /\ \A j \in DOMAIN attachments : attachments'[j] = attachments[j]
         /\ reducer(attachments', Head(queue)) = attachments']_vars

\* C17 witness: a PENDING is about to be applied to a key whose entry
\* already carries progress.
C17_PendingOnEntryWithProgress ==
  /\ queue # <<>>
  /\ Head(queue).type = "PENDING"
  /\ LET id == PropertyKey(Head(queue).id) IN
       /\ id \in DOMAIN attachments
       /\ attachments[id].progress # NoProgress

\* C18: a reducer action with payload id k leaves the entry of every other
\* key as it is, and no step removes a key from the mapping.
C18_OtherKeysUntouched ==
  [][/\ DOMAIN attachments \subseteq DOMAIN attachments'
     /\ \A j \in DOMAIN attachments :
          (queue = <<>> \/ j # PropertyKey(Head(queue).id))
            => attachments'[j] = attachments[j]]_vars

\* C18 witness: a SUCCESS for one key is about to be applied while another
\* key's entry is Loading.
C18_SuccessBesideLoading ==
  /\ queue # <<>>
  /\ Head(queue).type = "SUCCESS"
  /\ \E j \in DOMAIN attachments :
       /\ j # PropertyKey(Head(queue).id)
       /\ StatusOf(j) = "Loading"

\* The load phase is calling the loader for key k in this step.
LoadCalled(k) == LoaderOf(loader', k).calls > LoaderOf(loader, k).calls

\* C19: when the loader is called for a key, no PENDING is waiting: every
\* loadable of the current input has its entry, the key's entry is NotAsked,
\* and the key is loaded by one call however many descriptors requested it.
C19_RequestsBeforeLoads ==
  [][\A k \in DOMAIN loader' :
       LoadCalled(k) =>
         /\ \A i \in 1..Len(queue) : queue[i].type # "PENDING"
         /\ \A d \in Range(loadables(sceneObjects, envFile)) :
              PropertyKey(KeyOf(d)) \in DOMAIN attachments
         /\ k \in DOMAIN attachments
         /\ StatusOf(k) = "NotAsked"
         /\ LoaderOf(loader', k).calls = LoaderOf(loader, k).calls + 1
         /\ Len(SelectSeq(queue', LAMBDA a : a.type = "LOAD" /\ PropertyKey(a.id) = k)) = 1]_vars

\* C19 witness: one change brought two new keys, one of them requested by
\* two descriptors; both entries are NotAsked and the load phase is due.
C19_TwoNewKeysOneShared ==
  /\ attachmentsDirty
  /\ queue = <<>>
  /\ \E i, j \in 1..Len(sceneObjects) :
       /\ i # j
       /\ IsLoadable(sceneObjects[i]) /\ IsLoadable(sceneObjects[j])
       /\ KeyOf(sceneObjects[i]) = KeyOf(sceneObjects[j])
       /\ KeyOf(sceneObjects[i]) \in DOMAIN attachments
       /\ StatusOf(KeyOf(sceneObjects[i])) = "NotAsked"
  /\ \E k1, k2 \in DOMAIN attachments :
       k1 # k2 /\ StatusOf(k1) = "NotAsked" /\ StatusOf(k2) = "NotAsked"

\* C20: a completion is not lost to LOAD: once the loader has delivered the
\* asset of a key and its SUCCESS is no longer waiting in the queue, the
\* key's entry is Success.
C20_CompletionNotLost ==
  \A k \in DOMAIN loader :
    (/\ loader[k].delivered # Undefined
     /\ \A i \in 1..Len(queue) :
          ~(queue[i].type = "SUCCESS" /\ PropertyKey(queue[i].id) = k))
      => k \in DOMAIN attachments /\ StatusOf(k) = "Success"

====
